---- MODULE Spec2Model ----
(***************************************************************************)
(* Model of MeshQualityAnalyzer (src/unnamed/part_000): topology           *)
(* reconstruction, the geometric primitives, the eight detection passes    *)
(* and the query surface.                                                  *)
(*                                                                         *)
(* Numbers.  The code computes in single-precision floats; the model       *)
(* computes in fixed point over the integers:                              *)
(*   - a coordinate (x, y, z, u, v) is a whole number of length units,     *)
(*     one length unit being 5e-5, so OVERLAP_THRESHOLD = 1e-4 is 2;       *)
(*   - an area is a whole number of half square length units (1.25e-9),    *)
(*     so 0.5f * sqrt(c.c) is ISqrt(c.c), 1e-5 is 8000 and 1e-6 is 800;    *)
(*   - a distance is in hundredths of a length unit (DistScale);           *)
(*   - a dimensionless float (severity, aspect ratio, UV stretch, a        *)
(*     component of a unit normal, a dot product) is in thousandths        *)
(*     (Milli);                                                            *)
(*   - an angle is a whole number of degrees.                              *)
(* numeric_limits<float>::max is FloatMax and a sum that overflows it is   *)
(* FloatInf.  Vertex and face indices are 0-based as in the code; TLA+     *)
(* sequences are 1-based, so element i of a C++ vector v is v[i + 1].      *)
(***************************************************************************)
EXTENDS Integers, Sequences, FiniteSets, TLC

\* ------------------------------------------------------------ fixed point
Milli == 1000

DistScale == 100

FloatMax == 2000000000

FloatInf == FloatMax + 1

\* The code's loops are sequential: an iteration starts from the computed
\* result of the one before.  Evaluated(v) is TRUE, and has v computed.
Evaluated(v) == v = v

Abs(a) == IF a < 0 THEN -a ELSE a

Max(a, b) == IF a > b THEN a ELSE b

Min_NoClamp(a, b) == b

Min(a, b) == IF a < b THEN a ELSE b

\* float division, rounded toward zero at the model's resolution
Quot(a, b) == IF a >= 0 THEN a \div b ELSE -((-a) \div b)

RECURSIVE SqrtSearch(_, _, _)
SqrtSearch(n, lo, hi) ==
    IF hi - lo <= 1 THEN lo
    ELSE LET mid == (lo + hi) \div 2
         IN  IF mid * mid <= n THEN SqrtSearch(n, mid, hi)
                               ELSE SqrtSearch(n, lo, mid)

\* std::sqrt, rounded down to a whole number
ISqrt(n) == SqrtSearch(n, 0, 46341)

\* float addition: FloatMax absorbs a small addend, FloatMax + FloatMax is inf
FAdd(a, b) ==
    IF a >= FloatInf \/ b >= FloatInf THEN FloatInf
    ELSE IF a >= FloatMax /\ b >= FloatMax THEN FloatInf
    ELSE IF a >= FloatMax \/ b >= FloatMax THEN FloatMax
    ELSE a + b

\* float division by a count
FDivN(a, n) == IF a >= FloatInf THEN FloatInf ELSE a \div n

\* cos(d degrees) in thousandths, rounded down, d = 0..90
CosTable ==
    << 1000, 999, 999, 998, 997, 996, 994, 992, 990, 987,
       984, 981, 978, 974, 970, 965, 961, 956, 951, 945,
       939, 933, 927, 920, 913, 906, 898, 891, 882, 874,
       866, 857, 848, 838, 829, 819, 809, 798, 788, 777,
       766, 754, 743, 731, 719, 707, 694, 681, 669, 656,
       642, 629, 615, 601, 587, 573, 559, 544, 529, 515,
       500, 484, 469, 453, 438, 422, 406, 390, 374, 358,
       342, 325, 309, 292, 275, 258, 241, 224, 207, 190,
       173, 156, 139, 121, 104, 87, 69, 52, 34, 17,
       0 >>

\* cos(d degrees) in thousandths, rounded down, d = 0..180; the cosine is a
\* whole number of thousandths at 0, 60, 90, 120 and 180 degrees only
CosDeg(d) ==
    IF d <= 90 THEN CosTable[d + 1]
    ELSE IF d \in { 120, 180 } THEN -CosTable[(180 - d) + 1]
    ELSE -(CosTable[(180 - d) + 1] + 1)

\* the largest d in lo..hi-1 with cos(d degrees) >= c
RECURSIVE AcosSearch(_, _, _)
AcosSearch(c, lo, hi) ==
    IF hi - lo <= 1 THEN lo
    ELSE LET mid == (lo + hi) \div 2
         IN  IF CosDeg(mid) >= c THEN AcosSearch(c, mid, hi)
                                 ELSE AcosSearch(c, lo, mid)

\* std::acos(c) * 180 / M_PI for c in thousandths, rounded down to a degree:
\* acos(1) is 0 and acos(-1) is 180
AcosDeg_Supplement(c) == 180 - AcosSearch(c, 0, 181)

AcosDeg(c) == AcosSearch(c, 0, 181)

\* ------------------------------------------------------------------ mesh
\* bounds of the meshes analysed
NumVerts == 8

MaxFaces == 3

MaxRuns == 2

Vtx(px, py, pz, qx, qy, qz, tu, tv) ==
    [x |-> px, y |-> py, z |-> pz, nx |-> qx, ny |-> qy, nz |-> qz,
     u |-> tu, v |-> tv]

Face(vi, ti) == [vertexIndices |-> vi, texCoordIndices |-> ti]

\* The vertex pool: a mesh's vertex list is a prefix of it.  Vertex 3 is
\* coincident with vertex 0 and vertex 4 is half an OVERLAP_THRESHOLD from
\* it; vertex 5 lies in the plane of 0, 1, 2 on the other side of edge 0-1;
\* vertex 6 makes a 16 degree fold and vertex 7 a thin triangle on that edge.
\* Vertices beyond the pool are spread on a far line.
BaseVertices ==
    << Vtx(0, 0, 0,      0, 0, 1,   0, 0),
       Vtx(100, 0, 0,    0, 0, 1,   100, 0),
       Vtx(0, 100, 0,    0, 0, 1,   0, 100),
       Vtx(0, 0, 0,      0, 0, 0,   0, 0),
       Vtx(1, 0, 0,      0, 0, 1,   1, 0),
       Vtx(0, -100, 0,   0, 0, 1,   0, 20),
       Vtx(0, 100, 30,   0, 0, 1,   0, 100),
       Vtx(50, 9, 0,     0, 0, -1,  50, 9) >>

PoolVertex(i) ==
    IF i <= Len(BaseVertices) THEN BaseVertices[i]
    ELSE Vtx(10 * i, -50, -50, 0, 0, 1, 0, 0)

\* The face pool: triangles on the shared edge 0-1, a 2-vertex and a
\* 1-vertex face, a reversed triangle without texture coordinates.
BaseFaces ==
    << Face(<<0>>, <<0>>),
       Face(<<0, 1>>, <<0, 1>>),
       Face(<<0, 1, 2>>, <<0, 1, 2>>),
       Face(<<1, 0, 2>>, <<>>),
       Face(<<0, 4, 2>>, <<0, 4, 2>>),
       Face(<<0, 1, 5>>, <<0, 1, 5>>),
       Face(<<0, 1, 6>>, <<0, 1, 6>>),
       Face(<<0, 1, 7>>, <<0, 1, 7>>) >>

SeqToSet(s) == { s[i] : i \in 1..Len(s) }

\* the pool faces whose indices are valid in a mesh of n vertices
FacesOver(n) ==
    { p \in 1..Len(BaseFaces) :
        \A i \in SeqToSet(BaseFaces[p].vertexIndices) : i < n }

\* the face lists of at most n pool faces, taken in pool order
FaceLists(P, n) ==
    UNION { { [i \in 1..k |-> BaseFaces[s[i]]] :
                s \in { t \in [1..k -> P] :
                          \A i \in 1..k, j \in 1..k : i < j => t[i] <= t[j] } } :
            k \in 0..n }

MeshesOver(n) ==
    { [name |-> "pool", vertices |-> [i \in 1..n |-> PoolVertex(i)], faces |-> fs] :
        fs \in FaceLists(FacesOver(n), MaxFaces) }

PoolMeshes == UNION { MeshesOver(n) : n \in 0..NumVerts }

\* A triangle fan around hub 0 with the rim 1..n on a line, and one more
\* vertex that no face uses: the hub has valence n, the last vertex valence 0.
FanMesh(n) ==
    [name |-> "fan",
     vertices |-> [i \in 1..(n + 2) |->
                     IF i = 1 THEN Vtx(0, 0, 0, 0, 0, 1, 0, 0)
                     ELSE IF i = n + 2 THEN Vtx(-50, -50, -50, 0, 0, 1, 0, 0)
                     ELSE Vtx(10 * (i - 1), 100, 0, 0, 0, 1, 10 * (i - 1), 100)],
     faces |-> [k \in 1..(n - 1) |-> Face(<<0, k, k + 1>>, <<0, k, k + 1>>)]]

\* -------------------------------------------------------- analyzer state
VARIABLES mesh, issues, metrics, edgeFaceMap, vertexConnectivity, runs, lastQuery,
          pending, window

vars == << mesh, issues, metrics, edgeFaceMap, vertexConnectivity, runs, lastQuery,
          pending, window >>

IssueTypes ==
    << "DEGENERATE_FACE", "HIGH_ASPECT_RATIO", "OVERLAPPING_VERTICES",
       "NON_MANIFOLD_EDGE", "INVERTED_NORMAL", "HIGH_VALENCE_VERTEX",
       "LOW_VALENCE_VERTEX", "TEXTURE_STRETCH", "SHARP_ANGLE" >>

MeshIssue(t, e, s, r) ==
    [type |-> t, elementIndex |-> e, severity |-> s, relatedElements |-> r]

InitialMetrics ==
    [minFaceArea |-> FloatMax, maxFaceArea |-> 0, avgFaceArea |-> 0,
     minAspectRatio |-> FloatMax, maxAspectRatio |-> 0, avgAspectRatio |-> 0,
     minDihedralAngle |-> FloatMax, maxDihedralAngle |-> 0,
     nonManifoldEdgeCount |-> 0, degenerateFaceCount |-> 0,
     uvStretchFactor |-> 0]

Vertex(m, idx) == m.vertices[idx + 1]

FaceAt(m, faceIdx) == m.faces[faceIdx + 1]

\* ------------------------------------------------------------- topology
EdgeKey(a, b) == IF a > b THEN << b, a >> ELSE << a, b >>

\* edgeFaceMap[{v1, v2}].push_back(faceIdx)
PushFace(efm, key, faceIdx) ==
    IF key \in DOMAIN efm THEN [efm EXCEPT ![key] = Append(@, faceIdx)]
    ELSE efm @@ (key :> << faceIdx >>)

\* if (std::find(conn[a], b) == end) conn[a].push_back(b)
Connect(conn, a, b) ==
    IF b \in SeqToSet(conn[a + 1]) THEN conn
    ELSE [conn EXCEPT ![a + 1] = Append(@, b)]

RECURSIVE RingLoop(_, _, _, _)
RingLoop(face, faceIdx, i, topo) ==
    LET vertexCount == Len(face.vertexIndices) IN
    IF Evaluated(topo) /\ i >= vertexCount THEN topo
    ELSE LET key == EdgeKey(face.vertexIndices[i + 1],
                            face.vertexIndices[((i + 1) % vertexCount) + 1])
             c1  == Connect(topo.conn, key[1], key[2])
             c2  == Connect(c1, key[2], key[1])
         IN  RingLoop(face, faceIdx, i + 1,
                      [efm |-> PushFace(topo.efm, key, faceIdx), conn |-> c2])

RECURSIVE FaceLoop(_, _, _)
FaceLoop(m, faceIdx, topo) ==
    IF Evaluated(topo) /\ faceIdx >= Len(m.faces) THEN topo
    ELSE FaceLoop(m, faceIdx + 1, RingLoop(FaceAt(m, faceIdx), faceIdx, 0, topo))

Resize_NeverShrinks(conn, n) ==
    [i \in 1..Max(n, Len(conn)) |-> IF i <= Len(conn) THEN conn[i] ELSE << >>]

\* vertexConnectivity.resize(n): keeps the first n lists, pads with empty ones
Resize(conn, n) == [i \in 1..n |-> IF i <= Len(conn) THEN conn[i] ELSE << >>]

buildTopology(m, oldConn) ==
    LET resized == Resize(oldConn, Len(m.vertices))
        cleared == [i \in 1..Len(resized) |-> << >>]
    IN  FaceLoop(m, 0, [efm |-> << >>, conn |-> cleared])

\* the keys of a std::map in iteration order: lexicographic on (first, second)
KeyLess(k1, k2) == k1[1] < k2[1] \/ (k1[1] = k2[1] /\ k1[2] < k2[2])

RECURSIVE SortedKeys(_)
SortedKeys(K) ==
    IF K = {} THEN << >>
    ELSE LET k == CHOOSE a \in K : \A b \in K \ {a} : KeyLess(a, b)
         IN  << k >> \o SortedKeys(K \ {k})

\* ---------------------------------------------------- geometric primitives
Sq(a) == a * a

CrossSq(ax, ay, az, bx, by, bz) ==
    Sq(ay * bz - az * by) + Sq(az * bx - ax * bz) + Sq(ax * by - ay * bx)

calculateTriangleArea(m, v1Idx, v2Idx, v3Idx) ==
    LET v1 == Vertex(m, v1Idx)
        v2 == Vertex(m, v2Idx)
        v3 == Vertex(m, v3Idx)
    IN  ISqrt(CrossSq(v2.x - v1.x, v2.y - v1.y, v2.z - v1.z,
                      v3.x - v1.x, v3.y - v1.y, v3.z - v1.z))

DistSq(v1, v2) == Sq(v2.x - v1.x) + Sq(v2.y - v1.y) + Sq(v2.z - v1.z)

calculateDistance(m, v1Idx, v2Idx) ==
    ISqrt(DistSq(Vertex(m, v1Idx), Vertex(m, v2Idx)) * DistScale * DistScale)

\* 1e-6 as an area (half square length units)
AreaEps == 800

\* 1e-6 as a distance (hundredths of a length unit)
HeightEps == 2

\* 1e-6 as the magnitude of a cross product (square length units)
CrossEps == 400

calculateAspectRatio(m, v1Idx, v2Idx, v3Idx) ==
    LET edge1     == calculateDistance(m, v1Idx, v2Idx)
        edge2     == calculateDistance(m, v2Idx, v3Idx)
        edge3     == calculateDistance(m, v3Idx, v1Idx)
        maxEdge   == Max(edge1, Max(edge2, edge3))
        area      == calculateTriangleArea(m, v1Idx, v2Idx, v3Idx)
        minHeight == IF area > AreaEps
                     THEN (area * DistScale * DistScale) \div maxEdge
                     ELSE 0
    IN  IF minHeight > HeightEps THEN (maxEdge * Milli) \div minHeight
        ELSE FloatMax

\* the first vertex of the face that is on neither end of the shared edge
RECURSIVE NonShared(_, _, _, _)
NonShared(vi, k, sharedV1Idx, sharedV2Idx) ==
    IF k > Len(vi) THEN 0
    ELSE IF vi[k] # sharedV1Idx /\ vi[k] # sharedV2Idx THEN vi[k]
    ELSE NonShared(vi, k + 1, sharedV1Idx, sharedV2Idx)

\* cross product a x b, divided by its length when that exceeds 1e-6; a
\* shorter product is left as it is, which is zero in thousandths
UnitNormal(ax, ay, az, bx, by, bz) ==
    LET cx  == ay * bz - az * by
        cy  == az * bx - ax * bz
        cz  == ax * by - ay * bx
        len == ISqrt(Sq(cx) + Sq(cy) + Sq(cz))
    IN  IF len > CrossEps
        THEN [x |-> Quot(cx * Milli, len), y |-> Quot(cy * Milli, len),
              z |-> Quot(cz * Milli, len), len |-> len]
        ELSE [x |-> 0, y |-> 0, z |-> 0, len |-> len]

Dot(n1, n2) == Quot(n1.x * n2.x + n1.y * n2.y + n1.z * n2.z, Milli)

calculateDihedralAngle(m, face1Idx, face2Idx, sharedV1Idx, sharedV2Idx) ==
    LET nonSharedV1 == NonShared(FaceAt(m, face1Idx).vertexIndices, 1,
                                 sharedV1Idx, sharedV2Idx)
        nonSharedV2 == NonShared(FaceAt(m, face2Idx).vertexIndices, 1,
                                 sharedV1Idx, sharedV2Idx)
        v1 == Vertex(m, sharedV1Idx)
        v2 == Vertex(m, sharedV2Idx)
        v3 == Vertex(m, nonSharedV1)
        v4 == Vertex(m, nonSharedV2)
        n1 == UnitNormal(v2.x - v1.x, v2.y - v1.y, v2.z - v1.z,
                         v3.x - v1.x, v3.y - v1.y, v3.z - v1.z)
        n2 == UnitNormal(v2.x - v1.x, v2.y - v1.y, v2.z - v1.z,
                         v4.x - v1.x, v4.y - v1.y, v4.z - v1.z)
        dotProduct == Max(-Milli, Min(Milli, Dot(n1, n2)))
    IN  AcosDeg(dotProduct)

calculateUVStretch(m, faceIdx) ==
    LET face == FaceAt(m, faceIdx) IN
    IF Len(face.vertexIndices) < 3 \/ Len(face.texCoordIndices) < 3 THEN 0
    ELSE LET v1 == Vertex(m, face.vertexIndices[1])
             v2 == Vertex(m, face.vertexIndices[2])
             v3 == Vertex(m, face.vertexIndices[3])
             surfaceArea == calculateTriangleArea(m, face.vertexIndices[1],
                                face.vertexIndices[2], face.vertexIndices[3])
             uvArea == Abs((v2.u - v1.u) * (v3.v - v1.v)
                           - (v3.u - v1.u) * (v2.v - v1.v))
         IN  IF surfaceArea < AreaEps \/ uvArea < AreaEps THEN 0
             ELSE Max((surfaceArea * Milli) \div uvArea,
                      (uvArea * Milli) \div surfaceArea)

\* ------------------------------------------------------- detection passes
\* A pass maps the analyzer's [issues, metrics] to their values after it.
DEGENERATE_THRESHOLD == 8000

RECURSIVE DegenerateLoop(_, _, _)
DegenerateLoop(m, faceIdx, acc) ==
    IF Evaluated(acc) /\ faceIdx >= Len(m.faces) THEN acc
    ELSE LET face == FaceAt(m, faceIdx) IN
         IF Len(face.vertexIndices) < 3 THEN DegenerateLoop(m, faceIdx + 1, acc)
         ELSE LET area == calculateTriangleArea(m, face.vertexIndices[1],
                              face.vertexIndices[2], face.vertexIndices[3])
                  hit  == area < DEGENERATE_THRESHOLD
                  issue == MeshIssue("DEGENERATE_FACE", faceIdx,
                               Milli - Quot(area * Milli, DEGENERATE_THRESHOLD),
                               face.vertexIndices)
              IN  DegenerateLoop(m, faceIdx + 1,
                    [totalArea |-> FAdd(acc.totalArea, area),
                     minArea   |-> Min(acc.minArea, area),
                     maxArea   |-> Max(acc.maxArea, area),
                     issues    |-> IF hit THEN Append(acc.issues, issue)
                                   ELSE acc.issues,
                     count     |-> IF hit THEN acc.count + 1 ELSE acc.count])

checkDegenerateFaces(m, st) ==
    LET acc == DegenerateLoop(m, 0,
                   [totalArea |-> 0, minArea |-> FloatMax, maxArea |-> 0,
                    issues |-> st.issues,
                    count |-> st.metrics.degenerateFaceCount])
        counted == [st.metrics EXCEPT !.degenerateFaceCount = acc.count]
    IN  [issues  |-> acc.issues,
         metrics |-> IF Len(m.faces) > 0
                     THEN [counted EXCEPT
                             !.minFaceArea = acc.minArea,
                             !.maxFaceArea = acc.maxArea,
                             !.avgFaceArea = FDivN(acc.totalArea, Len(m.faces))]
                     ELSE counted]

HIGH_ASPECT_THRESHOLD == 10

RECURSIVE AspectLoop(_, _, _)
AspectLoop(m, faceIdx, acc) ==
    IF Evaluated(acc) /\ faceIdx >= Len(m.faces) THEN acc
    ELSE LET face == FaceAt(m, faceIdx) IN
         IF Len(face.vertexIndices) < 3 THEN AspectLoop(m, faceIdx + 1, acc)
         ELSE LET aspectRatio == calculateAspectRatio(m, face.vertexIndices[1],
                                     face.vertexIndices[2], face.vertexIndices[3])
                  hit == aspectRatio > HIGH_ASPECT_THRESHOLD * Milli
                  normalizedSeverity ==
                      Min(Milli, (aspectRatio - HIGH_ASPECT_THRESHOLD * Milli) \div 30)
                  issue == MeshIssue("HIGH_ASPECT_RATIO", faceIdx,
                               normalizedSeverity, face.vertexIndices)
              IN  AspectLoop(m, faceIdx + 1,
                    [totalAspectRatio |-> FAdd(acc.totalAspectRatio, aspectRatio),
                     minAspectRatio   |-> Min(acc.minAspectRatio, aspectRatio),
                     maxAspectRatio   |-> Max(acc.maxAspectRatio, aspectRatio),
                     issues |-> IF hit THEN Append(acc.issues, issue)
                                ELSE acc.issues])

checkAspectRatio(m, st) ==
    LET acc == AspectLoop(m, 0,
                   [totalAspectRatio |-> 0, minAspectRatio |-> FloatMax,
                    maxAspectRatio |-> 0, issues |-> st.issues])
    IN  [issues  |-> acc.issues,
         metrics |-> IF Len(m.faces) > 0
                     THEN [st.metrics EXCEPT
                             !.minAspectRatio = acc.minAspectRatio,
                             !.maxAspectRatio = acc.maxAspectRatio,
                             !.avgAspectRatio =
                                 FDivN(acc.totalAspectRatio, Len(m.faces))]
                     ELSE st.metrics]

RECURSIVE NonManifoldLoop(_, _, _, _)
NonManifoldLoop(efm, keys, k, st) ==
    IF Evaluated(st) /\ k > Len(keys) THEN st
    ELSE LET edge == keys[k]
             facesUsingEdge == efm[edge]
         IN  IF Len(facesUsingEdge) > 2
             THEN NonManifoldLoop(efm, keys, k + 1,
                    [issues |-> Append(st.issues,
                        MeshIssue("NON_MANIFOLD_EDGE", edge[1],
                            Min(Milli, ((Len(facesUsingEdge) - 2) * Milli) \div 4),
                            << edge[2] >>)),
                     metrics |-> [st.metrics EXCEPT
                        !.nonManifoldEdgeCount = @ + 1]])
             ELSE NonManifoldLoop(efm, keys, k + 1, st)

checkNonManifoldEdges_CountsList(efm, st) ==
    LET res == NonManifoldLoop(efm, SortedKeys(DOMAIN efm), 1, st)
    IN  [res EXCEPT !.metrics.nonManifoldEdgeCount = Len(res.issues)]

checkNonManifoldEdges(efm, st) ==
    NonManifoldLoop(efm, SortedKeys(DOMAIN efm), 1, st)

LOW_VALENCE_THRESHOLD == 3

HIGH_VALENCE_THRESHOLD == 12

IsLowValence_Unguarded(valence) == valence < LOW_VALENCE_THRESHOLD

\* if (valence > 0 && valence < LOW_VALENCE_THRESHOLD)
IsLowValence(valence) == valence > 0 /\ valence < LOW_VALENCE_THRESHOLD

IsHighValence_Inclusive(valence) == valence >= HIGH_VALENCE_THRESHOLD

\* if (valence > HIGH_VALENCE_THRESHOLD)
IsHighValence(valence) == valence > HIGH_VALENCE_THRESHOLD

RECURSIVE ValenceLoop(_, _, _)
ValenceLoop(conn, vertexIdx, iss) ==
    IF Evaluated(iss) /\ vertexIdx >= Len(conn) THEN iss
    ELSE LET valence == Len(conn[vertexIdx + 1])
             low  == IF IsLowValence(valence)
                     THEN << MeshIssue("LOW_VALENCE_VERTEX", vertexIdx,
                               Milli - (valence * Milli) \div LOW_VALENCE_THRESHOLD,
                               conn[vertexIdx + 1]) >>
                     ELSE << >>
             high == IF IsHighValence(valence)
                     THEN << MeshIssue("HIGH_VALENCE_VERTEX", vertexIdx,
                               Min(Milli,
                                   ((valence - HIGH_VALENCE_THRESHOLD) * Milli) \div 8),
                               conn[vertexIdx + 1]) >>
                     ELSE << >>
         IN  ValenceLoop(conn, vertexIdx + 1, iss \o low \o high)

checkVertexValence(conn, st) ==
    [st EXCEPT !.issues = ValenceLoop(conn, 0, st.issues)]

OVERLAP_THRESHOLD == 2

FirstPartner_FromZero(i) == 0

\* for (size_t j = i + 1; ...)
FirstPartner(i) == i + 1

\* the inner loop, over j
RECURSIVE OverlapPartners(_, _, _, _)
OverlapPartners(m, i, j, iss) ==
    IF Evaluated(iss) /\ j >= Len(m.vertices) THEN iss
    ELSE LET distSq == DistSq(Vertex(m, i), Vertex(m, j)) IN
         IF distSq < OVERLAP_THRESHOLD * OVERLAP_THRESHOLD
         THEN OverlapPartners(m, i, j + 1,
                Append(iss, MeshIssue("OVERLAPPING_VERTICES", i,
                    Milli - (ISqrt(distSq * DistScale * DistScale) * Milli)
                              \div (OVERLAP_THRESHOLD * DistScale),
                    << j >>)))
         ELSE OverlapPartners(m, i, j + 1, iss)

\* the outer loop, over i
RECURSIVE OverlapLoop(_, _, _)
OverlapLoop(m, i, iss) ==
    IF Evaluated(iss) /\ i >= Len(m.vertices) THEN iss
    ELSE OverlapLoop(m, i + 1, OverlapPartners(m, i, FirstPartner(i), iss))

checkOverlappingVertices(m, st) ==
    [st EXCEPT !.issues = OverlapLoop(m, 0, st.issues)]

RECURSIVE NormalLoop(_, _, _)
NormalLoop(m, faceIdx, iss) ==
    IF Evaluated(iss) /\ faceIdx >= Len(m.faces) THEN iss
    ELSE LET face == FaceAt(m, faceIdx) IN
         IF Len(face.vertexIndices) < 3 THEN NormalLoop(m, faceIdx + 1, iss)
         ELSE LET v1 == Vertex(m, face.vertexIndices[1])
                  v2 == Vertex(m, face.vertexIndices[2])
                  v3 == Vertex(m, face.vertexIndices[3])
                  n  == UnitNormal(v2.x - v1.x, v2.y - v1.y, v2.z - v1.z,
                                   v3.x - v1.x, v3.y - v1.y, v3.z - v1.z)
                  vnx == Quot((v1.nx + v2.nx + v3.nx) * Milli, 3)
                  vny == Quot((v1.ny + v2.ny + v3.ny) * Milli, 3)
                  vnz == Quot((v1.nz + v2.nz + v3.nz) * Milli, 3)
                  vnLen == ISqrt(Sq(vnx) + Sq(vny) + Sq(vnz))
                  vn == [x |-> Quot(vnx * Milli, vnLen),
                         y |-> Quot(vny * Milli, vnLen),
                         z |-> Quot(vnz * Milli, vnLen)]
                  dotProduct == Dot(n, vn)
              IN  IF n.len > CrossEps /\ vnLen > 0 /\ dotProduct < 0
                  THEN NormalLoop(m, faceIdx + 1,
                         Append(iss, MeshIssue("INVERTED_NORMAL", faceIdx,
                                         Min(Milli, -dotProduct),
                                         face.vertexIndices)))
                  ELSE NormalLoop(m, faceIdx + 1, iss)

checkNormalDirection(m, st) ==
    [st EXCEPT !.issues = NormalLoop(m, 0, st.issues)]

HIGH_STRETCH_THRESHOLD == 4

RECURSIVE StretchLoop(_, _, _)
StretchLoop(m, faceIdx, acc) ==
    IF Evaluated(acc) /\ faceIdx >= Len(m.faces) THEN acc
    ELSE LET stretch == calculateUVStretch(m, faceIdx) IN
         IF stretch > 0
         THEN StretchLoop(m, faceIdx + 1,
                [totalStretch |-> FAdd(acc.totalStretch, stretch),
                 stretchableCount |-> acc.stretchableCount + 1,
                 issues |->
                    IF stretch > HIGH_STRETCH_THRESHOLD * Milli
                    THEN Append(acc.issues,
                           MeshIssue("TEXTURE_STRETCH", faceIdx,
                               Min(Milli,
                                   (stretch - HIGH_STRETCH_THRESHOLD * Milli) \div 6),
                               FaceAt(m, faceIdx).vertexIndices))
                    ELSE acc.issues])
         ELSE StretchLoop(m, faceIdx + 1, acc)

checkUVStretch(m, st) ==
    LET acc == StretchLoop(m, 0,
                   [totalStretch |-> 0, stretchableCount |-> 0,
                    issues |-> st.issues])
    IN  [issues  |-> acc.issues,
         metrics |-> IF acc.stretchableCount > 0
                     THEN [st.metrics EXCEPT !.uvStretchFactor =
                             FDivN(acc.totalStretch, acc.stretchableCount)]
                     ELSE st.metrics]

SHARP_ANGLE_THRESHOLD == 30

RECURSIVE SharpLoop(_, _, _, _, _)
SharpLoop(m, efm, keys, k, st) ==
    IF Evaluated(st) /\ k > Len(keys) THEN st
    ELSE LET edge == keys[k]
             facesUsingEdge == efm[edge]
         IN
         IF Len(facesUsingEdge) = 2
         THEN LET angle == calculateDihedralAngle(m, facesUsingEdge[1],
                               facesUsingEdge[2], edge[1], edge[2])
                  \* angle < min || min < 0.1f
                  m1 == IF angle < st.metrics.minDihedralAngle
                           \/ 10 * st.metrics.minDihedralAngle < 1
                        THEN [st.metrics EXCEPT !.minDihedralAngle = angle]
                        ELSE st.metrics
                  m2 == IF angle > m1.maxDihedralAngle
                        THEN [m1 EXCEPT !.maxDihedralAngle = angle]
                        ELSE m1
              IN  SharpLoop(m, efm, keys, k + 1,
                    [issues |->
                        IF angle < SHARP_ANGLE_THRESHOLD
                        THEN Append(st.issues,
                               MeshIssue("SHARP_ANGLE", edge[1],
                                   Milli - Quot(angle * Milli, SHARP_ANGLE_THRESHOLD),
                                   << edge[2] >>))
                        ELSE st.issues,
                     metrics |-> m2])
         ELSE SharpLoop(m, efm, keys, k + 1, st)

checkSharpAngles(m, efm, st) ==
    SharpLoop(m, efm, SortedKeys(DOMAIN efm), 1, st)

calculateOverallMetrics(st) == st

\* ---------------------------------------------------------- analyzeQuality
PassNames_ValenceFirst ==
    << "checkVertexValence", "checkDegenerateFaces", "checkAspectRatio",
       "checkNonManifoldEdges", "checkOverlappingVertices", "checkNormalDirection",
       "checkUVStretch", "checkSharpAngles" >>

\* The eight passes by name, in the order analyzeQuality calls them.
PassNames ==
    << "checkDegenerateFaces", "checkAspectRatio", "checkNonManifoldEdges",
       "checkVertexValence", "checkOverlappingVertices", "checkNormalDirection",
       "checkUVStretch", "checkSharpAngles" >>

RunPass(name, m, topo, st) ==
    CASE name = "checkDegenerateFaces"     -> checkDegenerateFaces(m, st)
      [] name = "checkAspectRatio"         -> checkAspectRatio(m, st)
      [] name = "checkNonManifoldEdges"    -> checkNonManifoldEdges(topo.efm, st)
      [] name = "checkVertexValence"       -> checkVertexValence(topo.conn, st)
      [] name = "checkOverlappingVertices" -> checkOverlappingVertices(m, st)
      [] name = "checkNormalDirection"     -> checkNormalDirection(m, st)
      [] name = "checkUVStretch"           -> checkUVStretch(m, st)
      [] name = "checkSharpAngles"         -> checkSharpAngles(m, topo.efm, st)

RECURSIVE RunPasses(_, _, _, _, _)
RunPasses(order, k, m, topo, st) ==
    IF Evaluated(st) /\ k > Len(order) THEN st
    ELSE RunPasses(order, k + 1, m, topo, RunPass(order[k], m, topo, st))

\* the analyzer's fields once the passes have left st, over the topology topo
AnalyzerAfter(topo, st) ==
    [issues |-> st.issues, metrics |-> st.metrics,
     edgeFaceMap |-> topo.efm, vertexConnectivity |-> topo.conn]

\* issues.clear(); then, over the topology just built, the passes in order and
\* calculateOverallMetrics()
AnalyzeOver(m, an, topo) ==
    AnalyzerAfter(topo,
        calculateOverallMetrics(
            RunPasses(PassNames, 1, m, topo,
                      [issues |-> << >>, metrics |-> an.metrics])))

\* issues.clear(); buildTopology(); the passes in order; calculateOverallMetrics()
analyzeQuality(m, an) == AnalyzeOver(m, an, buildTopology(m, an.vertexConnectivity))

\* the analyzer right after its constructor
NewAnalyzer ==
    [issues |-> << >>, metrics |-> InitialMetrics,
     edgeFaceMap |-> << >>, vertexConnectivity |-> << >>]

\* ------------------------------------------------------------------ queries
RECURSIVE ByTypeLoop(_, _, _, _)
ByTypeLoop(iss, k, type, filteredIssues) ==
    IF Evaluated(filteredIssues) /\ k > Len(iss) THEN filteredIssues
    ELSE ByTypeLoop(iss, k + 1, type,
            IF iss[k].type = type THEN Append(filteredIssues, iss[k])
            ELSE filteredIssues)

getIssuesByType(iss, type) == ByTypeLoop(iss, 1, type, << >>)

SeverityAtLeast_Exclusive(issue, minSeverity) == issue.severity > minSeverity

\* if (issue.severity >= minSeverity)
SeverityAtLeast(issue, minSeverity) == issue.severity >= minSeverity

RECURSIVE BySeverityLoop(_, _, _, _)
BySeverityLoop(iss, k, minSeverity, filteredIssues) ==
    IF Evaluated(filteredIssues) /\ k > Len(iss) THEN filteredIssues
    ELSE BySeverityLoop(iss, k + 1, minSeverity,
            IF SeverityAtLeast(iss[k], minSeverity)
            THEN Append(filteredIssues, iss[k])
            ELSE filteredIssues)

getIssuesBySeverity(iss, minSeverity) == BySeverityLoop(iss, 1, minSeverity, << >>)

\* std::map<IssueType, int> issueCounts, read in key order: the types that
\* have an issue, by ascending enum ordinal, each with its number of issues
IssueCounts(iss) ==
    SelectSeq([t \in 1..Len(IssueTypes) |->
                 << IssueTypes[t],
                    Cardinality({ k \in 1..Len(iss) : iss[k].type = IssueTypes[t] }) >>],
              LAMBDA entry : entry[2] > 0)

\* The summary text, as its fields in the order they are written; a number
\* stands for its std::to_string and a type for its getIssueTypeName.
getQualitySummary(m, met, iss) ==
    [name |-> m.name, faces |-> Len(m.faces), vertices |-> Len(m.vertices),
     faceArea |-> << met.minFaceArea, met.maxFaceArea, met.avgFaceArea >>,
     aspectRatio |-> << met.minAspectRatio, met.maxAspectRatio, met.avgAspectRatio >>,
     dihedralAngle |-> << met.minDihedralAngle, met.maxDihedralAngle >>,
     nonManifoldEdges |-> met.nonManifoldEdgeCount,
     degenerateFaces |-> met.degenerateFaceCount,
     uvStretchFactor |-> met.uvStretchFactor,
     issueCounts |-> IssueCounts(iss)]

\* ------------------------------------------------------------ state machine
\* the hub valences of the fan meshes: at, just above and far above
\* HIGH_VALENCE_THRESHOLD
FanSizes ==
    { HIGH_VALENCE_THRESHOLD, HIGH_VALENCE_THRESHOLD + 1, HIGH_VALENCE_THRESHOLD + 9 }

Meshes == PoolMeshes \cup { FanMesh(n) : n \in FanSizes }

\* The viewer window (GLWindow) and the renderer it drives.  held is the set
\* of mouse buttons physically down, cursor the position of the mouse and
\* event the last event delivered to handle(); rotation, pan and zoom are the renderer's view of the model.
Buttons == { "left", "right" }

NoEvent == [type |-> "none"]

InitialWindow ==
    [mouseDown |-> FALSE, lastMouseX |-> 0, lastMouseY |-> 0,
     cursor |-> << 0, 0 >>, held |-> {}, event |-> NoEvent,
     rotation |-> << 0, 0 >>, pan |-> << 0, 0 >>, zoom |-> 0]

NoQuery == [op |-> "none"]

\* the thresholds a caller passes to getIssuesBySeverity: a fixed few and the
\* severity of every issue present (the inclusive boundary)
SeverityArgs == { 0, Milli \div 2, Milli } \cup { issues[k].severity : k \in 1..Len(issues) }

\* the analyzer just constructed over one of the meshes of M
InitOver(M) ==
    /\ mesh \in M
    /\ issues = NewAnalyzer.issues
    /\ metrics = NewAnalyzer.metrics
    /\ edgeFaceMap = NewAnalyzer.edgeFaceMap
    /\ vertexConnectivity = NewAnalyzer.vertexConnectivity
    /\ runs = 0
    /\ lastQuery = NoQuery
    /\ pending = {}
    /\ window = InitialWindow

Init == InitOver(Meshes)

Analyzer ==
    [issues |-> issues, metrics |-> metrics, edgeFaceMap |-> edgeFaceMap,
     vertexConnectivity |-> vertexConnectivity]

AnalyzeQuality ==
    /\ runs < MaxRuns
    /\ pending = {}
    /\ \E an \in { analyzeQuality(mesh, Analyzer) } :
         /\ issues' = an.issues
         /\ metrics' = an.metrics
         /\ edgeFaceMap' = an.edgeFaceMap
         /\ vertexConnectivity' = an.vertexConnectivity
    /\ runs' = runs + 1
    /\ lastQuery' = NoQuery
    /\ UNCHANGED << mesh, pending, window >>

GetIssuesByType ==
    \E type \in SeqToSet(IssueTypes) :
        /\ lastQuery' = [op |-> "getIssuesByType", arg |-> type,
                         result |-> getIssuesByType(issues, type)]
        /\ UNCHANGED << mesh, issues, metrics, edgeFaceMap, vertexConnectivity, runs,
                        pending, window >>

GetIssuesBySeverity ==
    \E minSeverity \in SeverityArgs :
        /\ lastQuery' = [op |-> "getIssuesBySeverity", arg |-> minSeverity,
                         result |-> getIssuesBySeverity(issues, minSeverity)]
        /\ UNCHANGED << mesh, issues, metrics, edgeFaceMap, vertexConnectivity, runs,
                        pending, window >>

GetIssues ==
    /\ lastQuery' = [op |-> "getIssues", arg |-> "none", result |-> issues]
    /\ UNCHANGED << mesh, issues, metrics, edgeFaceMap, vertexConnectivity, runs,
                    pending, window >>

GetMetrics ==
    /\ lastQuery' = [op |-> "getMetrics", arg |-> "none", result |-> metrics]
    /\ UNCHANGED << mesh, issues, metrics, edgeFaceMap, vertexConnectivity, runs,
                    pending, window >>

GetQualitySummary_Reanalyzes ==
    /\ \E an \in { analyzeQuality(mesh, Analyzer) } :
         /\ issues' = an.issues
         /\ metrics' = an.metrics
         /\ edgeFaceMap' = an.edgeFaceMap
         /\ vertexConnectivity' = an.vertexConnectivity
         /\ lastQuery' = [op |-> "getQualitySummary", arg |-> "none",
                          result |-> getQualitySummary(mesh, an.metrics, an.issues)]
    /\ UNCHANGED << mesh, runs, pending, window >>

GetQualitySummary ==
    /\ lastQuery' = [op |-> "getQualitySummary", arg |-> "none",
                     result |-> getQualitySummary(mesh, metrics, issues)]
    /\ UNCHANGED << mesh, issues, metrics, edgeFaceMap, vertexConnectivity, runs,
                    pending, window >>

Next ==
    \/ AnalyzeQuality
    \/ GetIssues
    \/ GetMetrics
    \/ GetIssuesByType
    \/ GetIssuesBySeverity
    \/ GetQualitySummary

\* analyzeQuality() alone: the analyses of a mesh, without the queries
SpecAnalysis == Init /\ [][AnalyzeQuality]_vars

Spec == Init /\ [][Next]_vars

\* ------------------------------------------------- the passes one at a time
\* analyzeQuality() taken apart: the list is cleared and the topology built,
\* then the eight passes run one by one, in any order.  pending holds the
\* passes of the current analysis that have not run yet.
PassFaceLists ==
    { << BaseFaces[3], BaseFaces[4], BaseFaces[6] >>,
      << BaseFaces[2], BaseFaces[5], BaseFaces[7] >>,
      << BaseFaces[1], BaseFaces[3], BaseFaces[8] >>,
      << >> }

PassMeshes ==
    { [name |-> "pool", vertices |-> [i \in 1..n |-> PoolVertex(i)], faces |-> fs] :
        n \in { Len(BaseVertices) }, fs \in PassFaceLists }

InitPasses == Init /\ mesh \in PassMeshes

BeginAnalysis ==
    /\ runs < MaxRuns
    /\ pending = {}
    /\ \E topo \in { buildTopology(mesh, vertexConnectivity) } :
         /\ edgeFaceMap' = topo.efm
         /\ vertexConnectivity' = topo.conn
    /\ issues' = << >>
    /\ pending' = SeqToSet(PassNames)
    /\ runs' = runs + 1
    /\ lastQuery' = NoQuery
    /\ UNCHANGED << mesh, metrics, window >>

RunOnePass ==
    \E name \in pending :
        /\ \E st \in { RunPass(name, mesh,
                                [efm |-> edgeFaceMap, conn |-> vertexConnectivity],
                                [issues |-> issues, metrics |-> metrics]) } :
               /\ issues' = st.issues
               /\ metrics' = st.metrics
        /\ pending' = pending \ { name }
        /\ UNCHANGED << mesh, edgeFaceMap, vertexConnectivity, runs, lastQuery,
                        window >>

NextPasses ==
    \/ BeginAnalysis
    \/ RunOnePass

SpecPasses == InitPasses /\ [][NextPasses]_vars

\* ------------------------------------------------- meshes of hinged triangles
\* Triangles hinged on the edges 0-1 and 0-2 of triangle 0-1-2, all but one in
\* its plane: vertex 3 lies across edge 0-1 from vertex 2 and vertex 4 on the
\* side of vertex 2; vertex 5 stands upright over edge 0-1; vertex 6 lies
\* across edge 0-2 from vertex 1.
MaxAngleFaces == 3

AngleVertices ==
    << Vtx(0, 0, 0,      0, 0, 1,   0, 0),
       Vtx(100, 0, 0,    0, 0, 1,   100, 0),
       Vtx(0, 100, 0,    0, 0, 1,   0, 100),
       Vtx(0, -100, 0,   0, 0, 1,   0, -100),
       Vtx(100, 100, 0,  0, 0, 1,   100, 100),
       Vtx(50, 0, 100,   0, -1, 0,  50, 100),
       Vtx(-100, 0, 0,   0, 0, 1,   -100, 0) >>

AngleFaces ==
    { Face(<<0, 1, 2>>, <<0, 1, 2>>),
      Face(<<1, 0, 3>>, <<1, 0, 3>>),
      Face(<<0, 1, 4>>, <<0, 1, 4>>),
      Face(<<0, 1, 5>>, <<0, 1, 5>>),
      Face(<<0, 2, 6>>, <<0, 2, 6>>) }

\* the lists of at most n different faces of F, in every order
DistinctLists(F, n) ==
    UNION { { fs \in [1..k -> F] : \A i \in 1..k, j \in 1..k : i < j => fs[i] # fs[j] } :
            k \in 0..n }

AngleMeshes ==
    { [name |-> "hinge", vertices |-> AngleVertices, faces |-> fs] :
        fs \in DistinctLists(AngleFaces, MaxAngleFaces) }

InitAngles == InitOver(AngleMeshes)

SpecAngles == InitAngles /\ [][AnalyzeQuality]_vars

\* ------------------------------------------------ a mesh edited between runs
\* The analyzer holds a reference to the mesh, whose owner may edit it between
\* two analyses: here it is replaced, once, after the first analysis, by any
\* small mesh, with more or fewer vertices and faces.
MaxRebuildVerts == 3

MaxRebuildFaces == 2

RebuildMeshes ==
    UNION { { [name |-> "pool", vertices |-> [i \in 1..n |-> PoolVertex(i)],
               faces |-> fs] : fs \in FaceLists(FacesOver(n), MaxRebuildFaces) } :
            n \in 0..MaxRebuildVerts }

InitRebuild == InitOver(RebuildMeshes)

ReplaceMesh ==
    /\ runs = 1
    /\ mesh' \in RebuildMeshes \ { mesh }
    /\ UNCHANGED << issues, metrics, edgeFaceMap, vertexConnectivity, runs, lastQuery,
                    pending, window >>

NextRebuild ==
    \/ AnalyzeQuality
    \/ ReplaceMesh

SpecRebuild == InitRebuild /\ [][NextRebuild]_vars

\* ------------------------------------------------------- the viewer window
\* bounds of the window: the cursor positions, the accumulated rotation and
\* the accumulated zoom
MaxCoord == 1

MaxTurn == 2

MaxZoom == 1

Coords == 0..MaxCoord

\* Fl::event_dy() of a wheel event: up, none (a horizontal scroll), down
WheelSteps == { -1, 0, 1 }

\* ModelRenderer::updateRotation(dx, dy): the rotation turns by the motion
updateRotation(w, dx, dy) == [w EXCEPT !.rotation = << @[1] + dx, @[2] + dy >>]

\* ModelRenderer::updateZoom(delta)
updateZoom(w, delta) == [w EXCEPT !.zoom = @ + delta]

\* GLWindow::handle(event): the window after the event e
handle(w, e) ==
    CASE e.type = "FL_PUSH" ->
           IF e.button = "left"
           THEN [w EXCEPT !.mouseDown = TRUE, !.lastMouseX = e.x, !.lastMouseY = e.y]
           ELSE w
      [] e.type = "FL_RELEASE" ->
           IF e.button = "left" THEN [w EXCEPT !.mouseDown = FALSE] ELSE w
      [] e.type = "FL_DRAG" ->
           IF w.mouseDown
           THEN [updateRotation(w, e.x - w.lastMouseX, e.y - w.lastMouseY)
                   EXCEPT !.lastMouseX = e.x, !.lastMouseY = e.y]
           ELSE w
      [] e.type = "FL_MOUSEWHEEL" -> updateZoom(w, -e.dy)
      [] OTHER -> w

InView(w) ==
    /\ Abs(w.rotation[1]) <= MaxTurn
    /\ Abs(w.rotation[2]) <= MaxTurn
    /\ Abs(w.zoom) <= MaxZoom

\* the event e reaches handle(), the buttons down and the cursor being as given
Deliver(e, held, cursor) ==
    /\ InView(handle(window, e))
    /\ window' = [handle(window, e) EXCEPT !.event = e, !.held = held,
                                           !.cursor = cursor]
    /\ UNCHANGED << mesh, issues, metrics, edgeFaceMap, vertexConnectivity, runs,
                    lastQuery, pending >>

\* a button goes down where the cursor is
Push ==
    \E b \in Buttons \ window.held :
        Deliver([type |-> "FL_PUSH", button |-> b,
                 x |-> window.cursor[1], y |-> window.cursor[2]],
                window.held \cup { b }, window.cursor)

\* a button that is down comes up
Release ==
    \E b \in window.held :
        Deliver([type |-> "FL_RELEASE", button |-> b,
                 x |-> window.cursor[1], y |-> window.cursor[2]],
                window.held \ { b }, window.cursor)

\* the mouse moves with a button down
Drag ==
    \E x \in Coords, y \in Coords :
        /\ window.held # {}
        /\ << x, y >> # window.cursor
        /\ Deliver([type |-> "FL_DRAG", x |-> x, y |-> y], window.held, << x, y >>)

\* the mouse moves with no button down
Move ==
    \E x \in Coords, y \in Coords :
        /\ window.held = {}
        /\ << x, y >> # window.cursor
        /\ Deliver([type |-> "FL_MOVE", x |-> x, y |-> y], window.held, << x, y >>)

MouseWheel ==
    \E dy \in WheelSteps :
        Deliver([type |-> "FL_MOUSEWHEEL", dy |-> dy], window.held, window.cursor)

InitWindow == Init /\ mesh \in MeshesOver(0)

NextWindow ==
    \/ Push
    \/ Release
    \/ Drag
    \/ Move
    \/ MouseWheel

SpecWindow == InitWindow /\ [][NextWindow]_vars

\* ------------------------------------------------------------------ claims
\* C1: a second analyzeQuality() in a row on the unmodified mesh leaves the
\* issue list and every field of the metrics record as the first call left
\* them.
C1_RerunIdentical ==
    [][(runs >= 1 /\ runs' = runs + 1) => (issues' = issues /\ metrics' = metrics)]_vars

\* C2: after any number of analyzeQuality() calls the metrics record is the
\* one a newly constructed analyzer reports after a single call on the mesh.
C2_MetricsAsFresh ==
    runs >= 1 => metrics = analyzeQuality(mesh, NewAnalyzer).metrics

\* C3: getIssuesByType(T) is exactly the subsequence of the issue list with
\* type T and getIssuesBySeverity(s) exactly the subsequence with severity
\* >= s, in the original order, nothing dropped, duplicated or altered.
C3_FiltersExact ==
    /\ lastQuery.op = "getIssuesByType" =>
         lastQuery.result = SelectSeq(issues, LAMBDA issue : issue.type = lastQuery.arg)
    /\ lastQuery.op = "getIssuesBySeverity" =>
         lastQuery.result =
            SelectSeq(issues, LAMBDA issue : issue.severity >= lastQuery.arg)

\* a severity query whose threshold is the severity of an issue it returns and
\* that keeps several issues and drops others
C3_Witness ==
    /\ lastQuery.op = "getIssuesBySeverity"
    /\ \E k \in 1..Len(lastQuery.result) : lastQuery.result[k].severity = lastQuery.arg
    /\ Len(lastQuery.result) > 1
    /\ Len(lastQuery.result) < Len(issues)

VertexIdx == 0..(Len(mesh.vertices) - 1)

FaceIdx == 0..(Len(mesh.faces) - 1)

IssuesWhere(Test(_)) == { k \in 1..Len(issues) : Test(issues[k]) }

\* the distance between vertices i and j is below 1e-4, and is zero
Close(i, j) == DistSq(Vertex(mesh, i), Vertex(mesh, j)) < Sq(OVERLAP_THRESHOLD)

Coincident(i, j) == DistSq(Vertex(mesh, i), Vertex(mesh, j)) = 0

OverlapIssuesFor(i, j) ==
    IssuesWhere(LAMBDA issue : /\ issue.type = "OVERLAPPING_VERTICES"
                               /\ issue.elementIndex = i
                               /\ issue.relatedElements = << j >>)

\* C4: after analyzeQuality() every pair i < j of vertices closer than 1e-4
\* has exactly one OVERLAPPING_VERTICES issue (elementIndex i, related [j]),
\* of severity 1 when the two coincide; no other pair has one, and no pair
\* is reported in the other order.
C4_OverlapPairs ==
    runs >= 1 =>
      /\ \A i \in VertexIdx, j \in VertexIdx :
           /\ i < j => Cardinality(OverlapIssuesFor(i, j)) = IF Close(i, j) THEN 1 ELSE 0
           /\ i >= j => OverlapIssuesFor(i, j) = {}
           /\ (i < j /\ Coincident(i, j)) =>
                \A k \in OverlapIssuesFor(i, j) : issues[k].severity = Milli
      /\ Cardinality(IssuesWhere(LAMBDA issue : issue.type = "OVERLAPPING_VERTICES"))
           = Cardinality({ p \in VertexIdx \X VertexIdx : p[1] < p[2] /\ Close(p[1], p[2]) })

\* three mutually close vertices, two of them coincident, and a pair apart
C4_Witness ==
    /\ runs >= 1
    /\ \E i \in VertexIdx, j \in VertexIdx, k \in VertexIdx :
         /\ i < j /\ j < k
         /\ Coincident(i, j)
         /\ Close(i, k) /\ Close(j, k) /\ ~Coincident(j, k)
         /\ OverlapIssuesFor(i, j) # {} /\ OverlapIssuesFor(i, k) # {}
         /\ OverlapIssuesFor(j, k) # {}
    /\ \E i \in VertexIdx, j \in VertexIdx : i < j /\ ~Close(i, j)

\* the edges of a face: its ring pairs, as sets of vertex indices
EdgesOfFace(face) ==
    LET vi == face.vertexIndices
    IN  { { vi[i + 1], vi[((i + 1) % Len(vi)) + 1] } : i \in 0..(Len(vi) - 1) }

FacesWithEdge(a, b) == { f \in FaceIdx : { a, b } \in EdgesOfFace(FaceAt(mesh, f)) }

NonManifoldIssuesFor(a, b) ==
    IssuesWhere(LAMBDA issue : /\ issue.type = "NON_MANIFOLD_EDGE"
                               /\ issue.elementIndex = a
                               /\ issue.relatedElements = << b >>)

\* C5: after one analyzeQuality() on a fresh analyzer every pair a < b that is
\* an edge of more than 2 faces has exactly one NON_MANIFOLD_EDGE issue
\* (elementIndex a, related [b], severity min(1, (faceCount - 2) / 4)); an
\* edge of 1 or 2 faces has none; nonManifoldEdgeCount counts these issues.
C5_NonManifoldEdges ==
    runs = 1 =>
      /\ \A a \in VertexIdx, b \in VertexIdx :
           a < b =>
             LET faceCount == Cardinality(FacesWithEdge(a, b)) IN
             /\ faceCount > 2 =>
                  /\ Cardinality(NonManifoldIssuesFor(a, b)) = 1
                  /\ \A k \in NonManifoldIssuesFor(a, b) :
                       issues[k].severity = Min(Milli, ((faceCount - 2) * Milli) \div 4)
             /\ faceCount <= 2 => NonManifoldIssuesFor(a, b) = {}
      /\ metrics.nonManifoldEdgeCount =
           Cardinality(IssuesWhere(LAMBDA issue : issue.type = "NON_MANIFOLD_EDGE"))

\* the number of distinct vertices adjacent to v via some edge of some face
Valence(v) ==
    Cardinality({ w \in VertexIdx :
                    \E f \in FaceIdx : { v, w } \in EdgesOfFace(FaceAt(mesh, f)) })

ValenceIssuesFor(type, v) ==
    IssuesWhere(LAMBDA issue : issue.type = type /\ issue.elementIndex = v)

\* C6: after analyzeQuality() a vertex has a LOW_VALENCE_VERTEX issue, of
\* severity 1 - valence/3, exactly when 0 < valence < 3, a HIGH_VALENCE_VERTEX
\* issue, of severity min(1, (valence - 12) / 8), exactly when valence > 12,
\* and never more than one valence issue.
C6_ValenceIssues ==
    runs >= 1 =>
      \A v \in VertexIdx :
        LET low     == ValenceIssuesFor("LOW_VALENCE_VERTEX", v)
            high    == ValenceIssuesFor("HIGH_VALENCE_VERTEX", v)
            valence == Valence(v)
        IN  /\ Cardinality(low) + Cardinality(high) <= 1
            /\ (0 < valence /\ valence < 3) =>
                 /\ Cardinality(low) = 1
                 /\ \A k \in low : issues[k].severity = Milli - (valence * Milli) \div 3
            /\ (valence = 0 \/ valence >= 3) => low = {}
            /\ valence > 12 =>
                 /\ Cardinality(high) = 1
                 /\ \A k \in high :
                      issues[k].severity = Min(Milli, ((valence - 12) * Milli) \div 8)
            /\ valence <= 12 => high = {}

\* a mesh with a vertex of valence 0, one of valence 1 or 2, one of valence
\* 3..12 and one above 12, analysed
C6_Witness ==
    /\ runs >= 1
    /\ \E v \in VertexIdx : Valence(v) = 0
    /\ \E v \in VertexIdx :
         Valence(v) \in {1, 2} /\ ValenceIssuesFor("LOW_VALENCE_VERTEX", v) # {}
    /\ \E v \in VertexIdx : Valence(v) >= 3 /\ Valence(v) <= 12
    /\ \E v \in VertexIdx :
         Valence(v) > 12 /\ ValenceIssuesFor("HIGH_VALENCE_VERTEX", v) # {}

FaceMetricsAtSentinel ==
    /\ metrics.minFaceArea = FloatMax
    /\ metrics.maxFaceArea = 0
    /\ metrics.avgFaceArea = 0
    /\ metrics.minAspectRatio = FloatMax
    /\ metrics.maxAspectRatio = 0
    /\ metrics.avgAspectRatio = 0
    /\ metrics.uvStretchFactor = 0
    /\ metrics.degenerateFaceCount = 0

\* C7 as stated: for a mesh with zero faces, after analyzeQuality() on a fresh
\* analyzer the issue list is empty and the face-area, aspect-ratio and
\* UV-stretch metrics are at their initial values.
C7_ZeroFacesNoIssues ==
    (runs = 1 /\ Len(mesh.faces) = 0) => (issues = << >> /\ FaceMetricsAtSentinel)

\* C7 as amended: for a mesh with zero faces, after analyzeQuality() on a
\* fresh analyzer the issue list holds OVERLAPPING_VERTICES issues only (none
\* when no two vertices are closer than 1e-4) and the face-area, aspect-ratio
\* and UV-stretch metrics are at their initial values.
C7_ZeroFacesOnlyOverlap ==
    (runs = 1 /\ Len(mesh.faces) = 0) =>
      /\ \A k \in 1..Len(issues) : issues[k].type = "OVERLAPPING_VERTICES"
      /\ (\A i \in VertexIdx, j \in VertexIdx : i < j => ~Close(i, j)) => issues = << >>
      /\ FaceMetricsAtSentinel

\* a mesh of several vertices and no face, analysed, with issues
C7_Witness ==
    /\ runs = 1
    /\ Len(mesh.faces) = 0
    /\ Len(mesh.vertices) > 1
    /\ issues # << >>

WithoutShortFaces(m) ==
    [m EXCEPT !.faces = SelectSeq(m.faces, LAMBDA face : Len(face.vertexIndices) >= 3)]

\* C8: a face with fewer than 3 vertex indices yields no Degenerate Face, High
\* Aspect Ratio or Inverted Normal issue and is not counted in the face-area
\* and aspect-ratio aggregates, which are those of the mesh without such faces.
C8_ShortFacesNotCounted ==
    runs = 1 =>
      /\ \A k \in 1..Len(issues) :
           issues[k].type \in { "DEGENERATE_FACE", "HIGH_ASPECT_RATIO", "INVERTED_NORMAL" }
             => Len(FaceAt(mesh, issues[k].elementIndex).vertexIndices) >= 3
      /\ LET ref == analyzeQuality(WithoutShortFaces(mesh), NewAnalyzer).metrics IN
           /\ metrics.minFaceArea = ref.minFaceArea
           /\ metrics.maxFaceArea = ref.maxFaceArea
           /\ metrics.avgFaceArea = ref.avgFaceArea
           /\ metrics.minAspectRatio = ref.minAspectRatio
           /\ metrics.maxAspectRatio = ref.maxAspectRatio
           /\ metrics.avgAspectRatio = ref.avgAspectRatio

\* the analyzer after n calls of analyzeQuality() on mesh m
RECURSIVE AnalyzeTimes(_, _)
AnalyzeTimes(m, n) ==
    IF n = 0 THEN NewAnalyzer ELSE analyzeQuality(m, AnalyzeTimes(m, n - 1))

\* a sequence as a multiset
BagOf(seq) ==
    [e \in SeqToSet(seq) |-> Cardinality({ k \in 1..Len(seq) : seq[k] = e })]

\* C9: whatever the order in which the eight passes ran after buildTopology,
\* the metrics record and the multiset of issues are those of the order
\* analyzeQuality() uses.
C9_PassOrderIndependent ==
    (pending = {} /\ runs >= 1) =>
      LET ref == AnalyzeTimes(mesh, runs) IN
      /\ metrics = ref.metrics
      /\ BagOf(issues) = BagOf(ref.issues)

\* an analysis completed in another order than analyzeQuality()'s, with
\* issues of four passes or more and metrics written by several passes
C9_Witness ==
    /\ pending = {}
    /\ runs >= 1
    /\ issues # AnalyzeTimes(mesh, runs).issues
    /\ Cardinality({ issues[k].type : k \in 1..Len(issues) }) >= 4
    /\ metrics.nonManifoldEdgeCount > 0
    /\ metrics.minDihedralAngle < FloatMax
    /\ metrics.maxFaceArea > 0

\* the place of an issue type's pass in analyzeQuality()
PassRank(type) ==
    CASE type = "DEGENERATE_FACE"      -> 1
      [] type = "HIGH_ASPECT_RATIO"    -> 2
      [] type = "NON_MANIFOLD_EDGE"    -> 3
      [] type = "LOW_VALENCE_VERTEX"   -> 4
      [] type = "HIGH_VALENCE_VERTEX"  -> 4
      [] type = "OVERLAPPING_VERTICES" -> 5
      [] type = "INVERTED_NORMAL"      -> 6
      [] type = "TEXTURE_STRETCH"      -> 7
      [] type = "SHARP_ANGLE"          -> 8

PairKeyed(type) ==
    type \in { "NON_MANIFOLD_EDGE", "OVERLAPPING_VERTICES", "SHARP_ANGLE" }

\* issue a is detected before issue b
DetectedBefore(a, b) ==
    \/ PassRank(a.type) < PassRank(b.type)
    \/ /\ PassRank(a.type) = PassRank(b.type)
       /\ IF PairKeyed(a.type)
          THEN \/ a.elementIndex < b.elementIndex
               \/ /\ a.elementIndex = b.elementIndex
                  /\ a.relatedElements[1] < b.relatedElements[1]
          ELSE a.elementIndex < b.elementIndex

\* C10: the issue list is in detection order: pass by pass in the order of
\* analyzeQuality(), and within a pass by ascending face index, vertex index,
\* (i, j) pair or (min, max) edge key.
C10_DetectionOrder ==
    runs >= 1 =>
      \A k \in 1..(Len(issues) - 1) : DetectedBefore(issues[k], issues[k + 1])

\* an issue list of five passes or more, with two issues of one edge pass,
\* whose severities neither ascend nor descend
C10_Witness ==
    /\ runs >= 1
    /\ Cardinality({ PassRank(issues[k].type) : k \in 1..Len(issues) }) >= 5
    /\ \E k \in 1..(Len(issues) - 1) :
         /\ issues[k].type = "SHARP_ANGLE"
         /\ issues[k + 1].type = "SHARP_ANGLE"
    /\ \E k \in 1..(Len(issues) - 1) : issues[k].severity < issues[k + 1].severity
    /\ \E k \in 1..(Len(issues) - 1) : issues[k].severity > issues[k + 1].severity

\* what a query returns in the current state
QueryResult(op, arg) ==
    CASE op = "getIssues"           -> issues
      [] op = "getMetrics"          -> metrics
      [] op = "getIssuesByType"     -> getIssuesByType(issues, arg)
      [] op = "getIssuesBySeverity" -> getIssuesBySeverity(issues, arg)
      [] op = "getQualitySummary"   -> getQualitySummary(mesh, metrics, issues)

\* C11: the five queries are read-only: a query step leaves the mesh, the
\* issue list, the metrics, the topology maps and the number of analyses run
\* as they were, and after any queries the last one, made again, returns the
\* result it returned.
C11_QueriesReadOnly ==
    /\ [](lastQuery # NoQuery =>
            lastQuery.result = QueryResult(lastQuery.op, lastQuery.arg))
    /\ [][lastQuery' # NoQuery =>
            UNCHANGED << mesh, issues, metrics, edgeFaceMap, vertexConnectivity,
                         runs, pending >>]_vars

\* a summary asked after two analyses of a mesh with issues of three types or
\* more and a non-manifold edge
C11_Witness ==
    /\ lastQuery.op = "getQualitySummary"
    /\ runs = 2
    /\ Len(lastQuery.result.issueCounts) >= 3
    /\ lastQuery.result.nonManifoldEdges > 0

\* C12: each documented mouse control has its documented effect: a drag with
\* the left button down turns the model, a drag with the right button down
\* pans it, a wheel event changes the zoom, and a move with no button down
\* changes nothing of the view.
C12_MouseControls ==
    [][LET e == window'.event IN
       window' # window =>
         /\ (e.type = "FL_DRAG" /\ "left" \in window.held) =>
               window'.rotation # window.rotation
         /\ (e.type = "FL_DRAG" /\ "right" \in window.held) =>
               window'.pan # window.pan
         /\ (e.type = "FL_MOUSEWHEEL" /\ e.dy # 0) => window'.zoom # window.zoom
         /\ e.type = "FL_MOVE" =>
               /\ window'.rotation = window.rotation
               /\ window'.pan = window.pan
               /\ window'.zoom = window.zoom]_vars

\* C13: after analyzeQuality() every issue in the list, whatever its type, has
\* a severity between 0 and 1.
C13_SeverityInUnitRange ==
    runs >= 1 =>
      \A k \in 1..Len(issues) : issues[k].severity >= 0 /\ issues[k].severity <= Milli

\* an analysed mesh with a high-valence issue whose unclamped severity
\* (valence - 12) / 8 is above 1, and an issue of severity strictly inside
C13_Witness ==
    /\ runs >= 1
    /\ \E k \in 1..Len(issues) :
         /\ issues[k].type = "HIGH_VALENCE_VERTEX"
         /\ Len(issues[k].relatedElements) - HIGH_VALENCE_THRESHOLD > 8
         /\ issues[k].severity = Milli
    /\ \E k \in 1..Len(issues) : issues[k].severity > 0 /\ issues[k].severity < Milli

\* the edges with exactly two incident faces, as (min, max) pairs
ManifoldEdges ==
    { e \in VertexIdx \X VertexIdx :
        e[1] < e[2] /\ Cardinality(FacesWithEdge(e[1], e[2])) = 2 }

FirstFace(e) == CHOOSE f \in FacesWithEdge(e[1], e[2]) :
                    \A g \in FacesWithEdge(e[1], e[2]) : f <= g

SecondFace(e) == CHOOSE f \in FacesWithEdge(e[1], e[2]) :
                     \A g \in FacesWithEdge(e[1], e[2]) : f >= g

\* the dihedral angle observed on a two-face edge
AngleAt(e) == calculateDihedralAngle(mesh, FirstFace(e), SecondFace(e), e[1], e[2])

ObservedAngles == { AngleAt(e) : e \in ManifoldEdges }

\* C14: after analyzeQuality() on a fresh analyzer over a mesh with an edge of
\* exactly two faces, minDihedralAngle is the smallest dihedral angle
\* observed on such edges (a later angle never raises the stored minimum) and
\* maxDihedralAngle the largest.
C14_MinMaxDihedral ==
    (runs = 1 /\ ManifoldEdges # {}) =>
      /\ metrics.minDihedralAngle \in ObservedAngles
      /\ \A a \in ObservedAngles : metrics.minDihedralAngle <= a
      /\ metrics.maxDihedralAngle \in ObservedAngles
      /\ \A a \in ObservedAngles : metrics.maxDihedralAngle >= a

\* the vertex of face f that is not an end of edge e
ThirdVertex(f, e) ==
    CHOOSE v \in SeqToSet(FaceAt(mesh, f).vertexIndices) : v # e[1] /\ v # e[2]

\* the position of vertex v relative to vertex a
Rel(v, a) ==
    << Vertex(mesh, v).x - Vertex(mesh, a).x, Vertex(mesh, v).y - Vertex(mesh, a).y,
       Vertex(mesh, v).z - Vertex(mesh, a).z >>

Dot3(p, q) == p[1] * q[1] + p[2] * q[2] + p[3] * q[3]

Cross3(p, q) ==
    << p[2] * q[3] - p[3] * q[2], p[3] * q[1] - p[1] * q[3], p[1] * q[2] - p[2] * q[1] >>

\* the two faces on edge e lie in one plane
InOnePlane(e) ==
    Dot3(Rel(e[2], e[1]),
         Cross3(Rel(ThirdVertex(FirstFace(e), e), e[1]),
                Rel(ThirdVertex(SecondFace(e), e), e[1]))) = 0

\* The parts of the two third vertices at right angles to edge e, multiplied:
\* negative when they lie on opposite sides of the edge, positive when on the
\* same side.
SideProduct(e) ==
    Dot3(Rel(e[2], e[1]), Rel(e[2], e[1]))
        * Dot3(Rel(ThirdVertex(FirstFace(e), e), e[1]),
               Rel(ThirdVertex(SecondFace(e), e), e[1]))
    - Dot3(Rel(e[2], e[1]), Rel(ThirdVertex(FirstFace(e), e), e[1]))
        * Dot3(Rel(e[2], e[1]), Rel(ThirdVertex(SecondFace(e), e), e[1]))

\* a flat surface: one plane, the third vertices on opposite sides of the edge
Flat(e) == InOnePlane(e) /\ SideProduct(e) < 0

\* folded back: one plane, the third vertices on the same side of the edge
FoldedBack(e) == InOnePlane(e) /\ SideProduct(e) > 0

SharpIssuesFor(e) ==
    IssuesWhere(LAMBDA issue : /\ issue.type = "SHARP_ANGLE"
                               /\ issue.elementIndex = e[1]
                               /\ issue.relatedElements = << e[2] >>)

EdgeKeysOfMesh ==
    UNION { { EdgeKey(FaceAt(mesh, f).vertexIndices[i + 1],
                      FaceAt(mesh, f).vertexIndices[
                          ((i + 1) % Len(FaceAt(mesh, f).vertexIndices)) + 1]) :
                i \in 0..(Len(FaceAt(mesh, f).vertexIndices) - 1) } :
            f \in FaceIdx }

Adjacent(v) == SeqToSet(vertexConnectivity[v + 1])

TopologyConsistent ==
    /\ \A key \in DOMAIN edgeFaceMap : key[1] <= key[2]
    /\ \A k1 \in DOMAIN edgeFaceMap, k2 \in DOMAIN edgeFaceMap :
         { k1[1], k1[2] } = { k2[1], k2[2] } => k1 = k2
    /\ DOMAIN edgeFaceMap = EdgeKeysOfMesh
    /\ Len(vertexConnectivity) = Len(mesh.vertices)
    /\ \A v \in VertexIdx :
         Cardinality(Adjacent(v)) = Len(vertexConnectivity[v + 1])
    /\ \A v \in VertexIdx, w \in VertexIdx :
         /\ w \in Adjacent(v) <=> v \in Adjacent(w)
         /\ w \in Adjacent(v) <=> EdgeKey(v, w) \in DOMAIN edgeFaceMap
    /\ \A v \in VertexIdx : Adjacent(v) \subseteq VertexIdx

\* C16: after every buildTopology, on a first run or after the mesh was
\* edited, the topology is consistent: keys are (min, max) pairs, one per
\* edge of the mesh and no other; adjacency lists have no duplicates, are
\* symmetric and agree with the keys; the adjacency table has one entry per
\* vertex of the mesh.
C16_TopologyConsistent ==
    [][runs' = runs + 1 => TopologyConsistent']_vars

\* a second analysis, over a mesh without faces and with fewer than three
\* vertices, after a first one over a mesh with a triangle (whose area the
\* metrics still hold)
C16_Witness ==
    /\ runs = 2
    /\ Len(mesh.faces) = 0
    /\ Len(mesh.vertices) < 3
    /\ metrics.maxFaceArea > 0
    /\ edgeFaceMap = << >>
    /\ Len(vertexConnectivity) = Len(mesh.vertices)

\* C17: after analyzeQuality() each entry of the edge map joins two different
\* vertices and lists every face that has the edge exactly once, so an entry
\* of length 2 means two different faces; a SHARP_ANGLE issue is raised only
\* on an edge of exactly two faces; and no vertex is adjacent to itself.
C17_EdgeEntriesExact ==
    runs >= 1 =>
      /\ \A key \in DOMAIN edgeFaceMap :
           /\ key[1] # key[2]
           /\ Cardinality(SeqToSet(edgeFaceMap[key])) = Len(edgeFaceMap[key])
           /\ SeqToSet(edgeFaceMap[key]) = FacesWithEdge(key[1], key[2])
      /\ \A k \in 1..Len(issues) :
           issues[k].type = "SHARP_ANGLE" =>
             Cardinality(FacesWithEdge(issues[k].elementIndex,
                                       issues[k].relatedElements[1])) = 2
      /\ \A v \in VertexIdx : v \notin Adjacent(v)

====
